---- MODULE Spec2Model ----
(***************************************************************************)
(* A model of zenkaku (src/zenkaku.cc): the five digit converters, the     *)
(* converter registry and main's processing loop.                          *)
(*                                                                         *)
(* A std::string is a sequence of bytes 0..255; the C++ index i is the     *)
(* TLA+ index i + 1.  A wide character is an integer (a 32-bit wchar_t).   *)
(* Whether plain char is signed is implementation-defined: the variable    *)
(* charSigned is fixed by Init for the whole run.                          *)
(***************************************************************************)
EXTENDS Integers, Sequences, FiniteSets

VARIABLES
  charSigned,      \* the build: is plain char a signed type
  pc,              \* main's position: start, parse, lookup, locale, process, exit
  conversion_type, \* --type (line 312)
  reverse_option,  \* --reverse (line 325)
  input_args,      \* the positional arguments (line 330)
  converters,      \* ConverterRegistry::converters (line 274)
  available_types, \* line 313
  converter,       \* the selected converter (line 339), or "nullptr"
  stdout,          \* the bytes written to standard output
  wcout_bad,       \* std::wcout's badbit
  exit_code,       \* the process's exit status; -1 while it runs
  arg_index,       \* the position of the loop of lines 382-384
  records,         \* history: the texts handed to processText, in order
  nread,           \* history: the records read from stdin
  call             \* history: what the last processText call did

vars == <<charSigned, pc, conversion_type, reverse_option, input_args,
          converters, available_types, converter, stdout, wcout_bad,
          exit_code, arg_index, records, nread, call>>

(***************************************************************************)
(* Bounds of the model.                                                    *)
(***************************************************************************)
MaxEncLen == 2
MaxDecLen == 4
MaxCoreLen == 6
MaxRecords == 2

(***************************************************************************)
(* Bytes and characters.                                                   *)
(***************************************************************************)
RECURSIVE StringsUpTo(_, _)
StringsUpTo(alphabet, n) ==
  IF n = 0 THEN {<<>>}
  ELSE LET shorter == StringsUpTo(alphabet, n - 1)
       IN shorter \cup {Append(s, b) : s \in shorter, b \in alphabet}

\* input[i] of a const std::string: input[input.length()] is the '\0' terminator
Byte(input, i) == IF i < Len(input) THEN input[i + 1] ELSE 0

\* the value of a plain char holding byte b
AsChar(b) == IF charSigned /\ b >= 128 THEN b - 256 ELSE b

\* the byte a char holds after an int is converted to char
ToByte(n) == n % 256

\* mutant of HasThree: the guard off by one
HasThree_offbyone(input, i) == i + 2 <= Len(input)

\* i + 2 < input.length(), the guard in front of every pattern test
HasThree(input, i) == i + 2 < Len(input)

\* the indices one loop iteration reads: input[i] always (the pattern test or
\* the passthrough), input[i + 1] and input[i + 2] as far as && evaluates
ReadsAt(input, i, prefixes) ==
  {i}
  \cup (IF HasThree(input, i) /\ \E p \in prefixes : Byte(input, i) = p[1]
        THEN {i + 1} ELSE {})
  \cup (IF HasThree(input, i)
           /\ \E p \in prefixes : Byte(input, i) = p[1] /\ Byte(input, i + 1) = p[2]
        THEN {i + 2} ELSE {})

\* mutant of Matched: the match advances by 2, not 3
Matched_short(input, i, digit, prefixes) ==
  [emit |-> <<digit>>, next |-> i + 2, matched |-> TRUE,
   reads |-> {i, i + 1, i + 2}]

\* mutant of Matched: the digit is not written
Matched_noemit(input, i, digit, prefixes) ==
  [emit |-> <<>>, next |-> i + 3, matched |-> TRUE,
   reads |-> {i, i + 1, i + 2}]

\* a match branch: os << digit; i += 3
Matched(input, i, digit, prefixes) ==
  [emit |-> <<digit>>, next |-> i + 3, matched |-> TRUE,
   reads |-> ReadsAt(input, i, prefixes)]

\* mutant of Passthrough: the byte is written and the index advances by 2
Passthrough_skip(input, i, prefixes) ==
  [emit |-> <<Byte(input, i)>>, next |-> i + 2, matched |-> FALSE,
   reads |-> {i}]

\* the passthrough branch: os << input[i]; i += 1
Passthrough(input, i, prefixes) ==
  [emit |-> <<Byte(input, i)>>, next |-> i + 1, matched |-> FALSE,
   reads |-> ReadsAt(input, i, prefixes)]

IsDigitChar(ch) == ch >= 48 /\ ch <= 57      \* ch >= '0' && ch <= '9'

(***************************************************************************)
(* FullWidthConverter.                                                     *)
(***************************************************************************)
\* lines 27-32: the wide character written for the char ch
FullWidthConverter_convert_char(ch) ==
  IF IsDigitChar(ch) THEN 65296 + (ch - 48)  \* L'\uFF10' + (ch - '0')
  ELSE ch                                    \* static_cast<wchar_t>(ch)

\* lines 39-52: one iteration of reverse's loop at index i
FullWidthConverter_reverse_iter(input, i) ==
  IF /\ HasThree(input, i)
     /\ Byte(input, i) = 239                 \* 0xEF
     /\ Byte(input, i + 1) = 188             \* 0xBC
     /\ Byte(input, i + 2) >= 144            \* 0x90
     /\ Byte(input, i + 2) <= 153            \* 0x99
  THEN Matched(input, i, ToByte(48 + (Byte(input, i + 2) - 144)), {<<239, 188>>})
  ELSE Passthrough(input, i, {<<239, 188>>})

(***************************************************************************)
(* CircleConverter.                                                        *)
(***************************************************************************)
\* lines 65-75
CircleConverter_convert_char(ch) ==
  IF IsDigitChar(ch)
  THEN IF ch = 48 THEN 9450                  \* L'\u24EA'
       ELSE 9312 + (ch - 49)                 \* L'\u2460' + (ch - '1')
  ELSE ch

\* mutant of CircleConverter_asciiDigit: counted from '0' as the other converters do
CircleConverter_asciiDigit_fromzero(b) == ToByte(48 + (AsChar(b) - 160))

\* line 88: char asciiDigit = '1' + (input[i + 2] - 0xA0), input[i + 2] a plain char
CircleConverter_asciiDigit(b) == ToByte(49 + (AsChar(b) - 160))

\* lines 82-102: one iteration; the loop header's ++i follows the body's i += 2
CircleConverter_reverse_iter(input, i) ==
  IF /\ HasThree(input, i)
     /\ Byte(input, i) = 226                 \* 0xE2
     /\ Byte(input, i + 1) = 145             \* 0x91
     /\ Byte(input, i + 2) >= 160            \* 0xA0
     /\ Byte(input, i + 2) <= 168            \* 0xA8
  THEN [Matched(input, i, CircleConverter_asciiDigit(Byte(input, i + 2)),
                {<<226, 145>>, <<226, 146>>})
        EXCEPT !.next = (i + 2) + 1]
  ELSE IF /\ HasThree(input, i)
          /\ Byte(input, i) = 226            \* 0xE2
          /\ Byte(input, i + 1) = 146        \* 0x92
          /\ Byte(input, i + 2) = 170        \* 0xAA
       THEN [Matched(input, i, 48, {<<226, 145>>, <<226, 146>>})
             EXCEPT !.next = (i + 2) + 1]
       ELSE Passthrough(input, i, {<<226, 145>>, <<226, 146>>})

(***************************************************************************)
(* RomanConverter.                                                         *)
(***************************************************************************)
\* lines 113-114
romanNumerals == <<65296, 8544, 8545, 8546, 8547, 8548, 8549, 8550, 8551, 8552>>

\* lines 119-123
RomanConverter_convert_char(ch) ==
  IF IsDigitChar(ch) THEN romanNumerals[(ch - 48) + 1] ELSE ch

\* lines 131-161
RomanConverter_reverse_iter(input, i) ==
  IF HasThree(input, i)
  THEN IF /\ Byte(input, i) = 239            \* 0xEF
          /\ Byte(input, i + 1) = 188        \* 0xBC
          /\ Byte(input, i + 2) = 144        \* 0x90
       THEN Matched(input, i, 48, {<<239, 188>>, <<226, 133>>})
       ELSE IF /\ Byte(input, i) = 226       \* 0xE2
               /\ Byte(input, i + 1) = 133   \* 0x85
               /\ Byte(input, i + 2) = 160   \* 0xA0
            THEN Matched(input, i, 49, {<<239, 188>>, <<226, 133>>})
            ELSE Passthrough(input, i, {<<239, 188>>, <<226, 133>>})
  ELSE Passthrough(input, i, {<<239, 188>>, <<226, 133>>})

(***************************************************************************)
(* ChineseConverter.                                                       *)
(***************************************************************************)
\* lines 172-173
chineseNumerals ==
  <<12295, 19968, 20108, 19977, 22235, 20116, 20845, 19971, 20843, 20061>>

\* lines 178-182
ChineseConverter_convert_char(ch) ==
  IF IsDigitChar(ch) THEN chineseNumerals[(ch - 48) + 1] ELSE ch

\* lines 190-216
ChineseConverter_reverse_iter(input, i) ==
  IF HasThree(input, i)
  THEN IF /\ Byte(input, i) = 227            \* 0xE3
          /\ Byte(input, i + 1) = 128        \* 0x80
          /\ Byte(input, i + 2) = 135        \* 0x87
       THEN Matched(input, i, 48, {<<227, 128>>, <<228, 184>>})
       ELSE IF /\ Byte(input, i) = 228       \* 0xE4
               /\ Byte(input, i + 1) = 184   \* 0xB8
               /\ Byte(input, i + 2) = 128   \* 0x80
            THEN Matched(input, i, 49, {<<227, 128>>, <<228, 184>>})
            ELSE Passthrough(input, i, {<<227, 128>>, <<228, 184>>})
  ELSE Passthrough(input, i, {<<227, 128>>, <<228, 184>>})

(***************************************************************************)
(* ThaiConverter.                                                          *)
(***************************************************************************)
\* lines 227-228
thaiNumerals == <<3664, 3665, 3666, 3667, 3668, 3669, 3670, 3671, 3672, 3673>>

\* lines 233-237
ThaiConverter_convert_char(ch) ==
  IF IsDigitChar(ch) THEN thaiNumerals[(ch - 48) + 1] ELSE ch

\* lines 243-263
ThaiConverter_reverse_iter(input, i) ==
  IF /\ HasThree(input, i)
     /\ Byte(input, i) = 224                 \* 0xE0
     /\ Byte(input, i + 1) = 185             \* 0xB9
     /\ Byte(input, i + 2) >= 144            \* 0x90
     /\ Byte(input, i + 2) <= 153            \* 0x99
  THEN Matched(input, i, ToByte(48 + (Byte(input, i + 2) - 144)), {<<224, 185>>})
  ELSE Passthrough(input, i, {<<224, 185>>})

(***************************************************************************)
(* The virtual calls of DigitConverter (lines 13-20).  A converter is      *)
(* named by its class.                                                     *)
(***************************************************************************)
Converters == <<"FullWidthConverter", "CircleConverter", "RomanConverter",
                "ChineseConverter", "ThaiConverter">>

\* mutant of getName: one name is misspelt
getName_typo(c) ==
  CASE c = "FullWidthConverter" -> "fullwidth"
    [] c = "CircleConverter"    -> "circle"
    [] c = "RomanConverter"     -> "Roman"
    [] c = "ChineseConverter"   -> "chinese"
    [] c = "ThaiConverter"      -> "thai"

getName(c) ==
  CASE c = "FullWidthConverter" -> "fullwidth"   \* line 56
    [] c = "CircleConverter"    -> "circle"      \* line 106
    [] c = "RomanConverter"     -> "roman"       \* line 165
    [] c = "ChineseConverter"   -> "chinese"     \* line 220
    [] c = "ThaiConverter"      -> "thai"        \* line 267

usesWideOutput(c) == TRUE                        \* lines 57, 107, 166, 221, 268

convert_char(c, ch) ==
  CASE c = "FullWidthConverter" -> FullWidthConverter_convert_char(ch)
    [] c = "CircleConverter"    -> CircleConverter_convert_char(ch)
    [] c = "RomanConverter"     -> RomanConverter_convert_char(ch)
    [] c = "ChineseConverter"   -> ChineseConverter_convert_char(ch)
    [] c = "ThaiConverter"      -> ThaiConverter_convert_char(ch)

\* convert: for (char ch : input), the wide characters handed to os in order
convert(c, input) == [k \in 1..Len(input) |-> convert_char(c, AsChar(input[k]))]

reverse_iter(c, input, i) ==
  CASE c = "FullWidthConverter" -> FullWidthConverter_reverse_iter(input, i)
    [] c = "CircleConverter"    -> CircleConverter_reverse_iter(input, i)
    [] c = "RomanConverter"     -> RomanConverter_reverse_iter(input, i)
    [] c = "ChineseConverter"   -> ChineseConverter_reverse_iter(input, i)
    [] c = "ThaiConverter"      -> ThaiConverter_reverse_iter(input, i)

\* reverse's loop from index i, after acc: the bytes written to os, the indices
\* of input read, and the number of iterations that took a match branch
RECURSIVE reverse_from(_, _, _, _)
reverse_from(c, input, i, acc) ==
  IF i < Len(input)
  THEN LET it == reverse_iter(c, input, i)
       IN reverse_from(c, input, it.next,
                       [out |-> acc.out \o it.emit,
                        reads |-> acc.reads \cup it.reads,
                        matches |-> acc.matches + (IF it.matched THEN 1 ELSE 0)])
  ELSE acc

reverse(c, input) ==
  reverse_from(c, input, 0, [out |-> <<>>, reads |-> {}, matches |-> 0])

(***************************************************************************)
(* std::wcout under the en_US.utf8 locale (lines 347-352): each wide       *)
(* character is converted to UTF-8 on its way to standard output.  A value *)
(* that is no Unicode scalar value cannot be converted: the write fails    *)
(* and nothing written to the stream afterwards reaches standard output.   *)
(* A stream is [bytes, bad].                                               *)
(***************************************************************************)
ValidWide(wc) == wc >= 0 /\ wc <= 1114111 /\ ~(wc >= 55296 /\ wc <= 57343)

Utf8(wc) ==
  IF wc < 128 THEN <<wc>>
  ELSE IF wc < 2048 THEN <<192 + (wc \div 64), 128 + (wc % 64)>>
  ELSE IF wc < 65536
       THEN <<224 + (wc \div 4096), 128 + ((wc \div 64) % 64), 128 + (wc % 64)>>
  ELSE <<240 + (wc \div 262144), 128 + ((wc \div 4096) % 64),
         128 + ((wc \div 64) % 64), 128 + (wc % 64)>>

\* os << wc on a wide stream
wput(stream, wc) ==
  IF stream.bad THEN stream
  ELSE IF ValidWide(wc) THEN [stream EXCEPT !.bytes = @ \o Utf8(wc)]
  ELSE [stream EXCEPT !.bad = TRUE]

RECURSIVE wwrite(_, _)
wwrite(stream, ws) ==
  IF ws = <<>> THEN stream ELSE wwrite(wput(stream, Head(ws)), Tail(ws))

(***************************************************************************)
(* ConverterRegistry (lines 272-303).  converters is a function from the   *)
(* registered names to converters.                                         *)
(***************************************************************************)
NoConverters == [n \in {} |-> "nullptr"]

\* lines 286-289: converters[name] = std::move(converter)
registerConverter(map, c) ==
  [n \in DOMAIN map \cup {getName(c)} |-> IF n = getName(c) THEN c ELSE map[n]]

\* lines 277-284
ConverterRegistry ==
  registerConverter(
    registerConverter(
      registerConverter(
        registerConverter(
          registerConverter(NoConverters, "FullWidthConverter"),
          "CircleConverter"),
        "RomanConverter"),
      "ChineseConverter"),
    "ThaiConverter")

\* mutant of getConverter: the name is lower-cased before the lookup
getConverter_nocase(map, name) ==
  LET lower == CASE name = "FullWidth" -> "fullwidth"
                 [] name = "Roman" -> "roman"
                 [] OTHER -> name
  IN IF lower \in DOMAIN map THEN map[lower] ELSE "nullptr"

\* lines 291-294
getConverter(map, name) == IF name \in DOMAIN map THEN map[name] ELSE "nullptr"

\* lines 296-302: the keys of the map
getAvailableTypes(map) == DOMAIN map

(***************************************************************************)
(* processText (lines 355-372) on one record: the new standard output and  *)
(* stream state, and what the converter call did.                          *)
(***************************************************************************)
processText(c, rev, text, out, bad) ==
  IF rev
  THEN \* lines 357-358: std::cout
       LET r == reverse(c, text)
       IN [stdout |-> out \o r.out \o <<10>>, bad |-> bad,
           body |-> r.out, written |-> r.out \o <<10>>,
           reads |-> r.reads, matches |-> r.matches]
  ELSE \* lines 360-370: std::wcout, directly or by way of a wstringstream,
       \* which keeps the wide characters as they are
       LET ws == IF usesWideOutput(c) THEN convert(c, text)   \* line 361
                 ELSE convert(c, text)                        \* lines 367-369
           w == wwrite([bytes |-> <<>>, bad |-> bad], ws)
           n == wput(w, 10)
       IN [stdout |-> out \o n.bytes, bad |-> n.bad,
           body |-> w.bytes, written |-> n.bytes,
           reads |-> {}, matches |-> 0]

(***************************************************************************)
(* The inputs of a run: the command line and the lines of standard input.  *)
(***************************************************************************)
RegisteredNames == {"fullwidth", "circle", "roman", "chinese", "thai"}

TypeInputs == RegisteredNames \cup {"not-a-real-type", "FullWidth", "Roman", ""}

\* the bytes decode inputs are built from: the converter's pattern bytes, the
\* bytes next to the ends of its ranges, and a byte of no pattern
DecAlphabet ==
  [c \in {Converters[k] : k \in 1..5} |->
     CASE c = "FullWidthConverter" -> {239, 188, 144, 153, 154, 143, 49}
       [] c = "CircleConverter"    -> {226, 145, 146, 160, 168, 169, 170, 159}
       [] c = "RomanConverter"     -> {239, 188, 144, 226, 133, 160, 161}
       [] c = "ChineseConverter"   -> {227, 128, 135, 228, 184, 186, 140}
       [] c = "ThaiConverter"      -> {224, 185, 144, 153, 154, 143, 49}]

\* the three bytes of one pattern, for longer inputs
CoreAlphabet ==
  [c \in {Converters[k] : k \in 1..5} |->
     CASE c = "FullWidthConverter" -> {239, 188, 144}
       [] c = "CircleConverter"    -> {226, 145, 160}
       [] c = "RomanConverter"     -> {239, 188, 144}
       [] c = "ChineseConverter"   -> {227, 128, 135}
       [] c = "ThaiConverter"      -> {224, 185, 144}]

\* the ten digits, a letter and a byte >= 0x80
EncAlphabet == (48..57) \cup {97, 195}

DecLines ==
  [c \in {Converters[k] : k \in 1..5} |->
     StringsUpTo(DecAlphabet[c], MaxDecLen) \cup StringsUpTo(CoreAlphabet[c], MaxCoreLen)]

EncLines == StringsUpTo(EncAlphabet, MaxEncLen)

\* the lines of a run of several records
SmallLines == {<<49>>, <<97, 50>>, <<195, 169>>, <<239, 188, 145>>}

\* what the parser leaves in input_args: nothing, or one text
ArgInputs == {<<>>, <<<<55>>>>, <<<<97, 50>>>>, <<<<195, 169>>>>, <<<<239, 188, 145>>>>}

NoCall == [text |-> <<>>, body |-> <<>>, written |-> <<>>, reads |-> {}, matches |-> 0]

Init ==
  /\ charSigned \in BOOLEAN
  /\ conversion_type \in TypeInputs
  /\ reverse_option \in BOOLEAN
  /\ input_args \in ArgInputs
  /\ pc = "start"
  /\ converters = NoConverters
  /\ available_types = {}
  /\ converter = "nullptr"
  /\ stdout = <<>>
  /\ wcout_bad = FALSE
  /\ exit_code = -1
  /\ arg_index = 0
  /\ records = <<>>
  /\ nread = 0
  /\ call = NoCall

(***************************************************************************)
(* main (lines 305-388).                                                   *)
(***************************************************************************)
\* lines 307-313: the registry is built and its names are listed
Construct ==
  /\ pc = "start"
  /\ converters' = ConverterRegistry
  /\ available_types' = getAvailableTypes(converters')
  /\ pc' = "parse"
  /\ UNCHANGED <<charSigned, conversion_type, reverse_option, input_args, converter,
                 stdout, wcout_bad, exit_code, arg_index, records, nread, call>>

\* CLI::IsMember(available_types) of line 322, as a predicate on the option's value
IsMember(types, value) == value \in types

\* line 336, the value passes the check of line 322
ParseAccept ==
  /\ pc = "parse"
  /\ IsMember(available_types, conversion_type)
  /\ pc' = "lookup"
  /\ UNCHANGED <<charSigned, conversion_type, reverse_option, input_args, converters,
                 available_types, converter, stdout, wcout_bad, exit_code, arg_index,
                 records, nread, call>>

\* line 336, the check fails: CLI11_PARSE returns app.exit(e), the exit code of
\* a CLI::ValidationError, with its message on standard error
ParseReject ==
  /\ pc = "parse"
  /\ ~IsMember(available_types, conversion_type)
  /\ pc' = "exit"
  /\ exit_code' = 105
  /\ UNCHANGED <<charSigned, conversion_type, reverse_option, input_args, converters,
                 available_types, converter, stdout, wcout_bad, arg_index, records,
                 nread, call>>

\* lines 339-344
Lookup ==
  /\ pc = "lookup"
  /\ converter' = getConverter(converters, conversion_type)
  /\ IF converter' = "nullptr"
     THEN pc' = "exit" /\ exit_code' = 1
     ELSE pc' = "locale" /\ UNCHANGED exit_code
  /\ UNCHANGED <<charSigned, conversion_type, reverse_option, input_args, converters,
                 available_types, stdout, wcout_bad, arg_index, records, nread, call>>

\* lines 347-352
LocaleSetup ==
  /\ pc = "locale"
  /\ pc' = "process"
  /\ UNCHANGED <<charSigned, conversion_type, reverse_option, input_args, converters,
                 available_types, converter, stdout, wcout_bad, exit_code, arg_index,
                 records, nread, call>>

\* the state after processText(text); r is the one result of the call
Process(text) ==
  \E r \in {processText(converter, reverse_option, text, stdout, wcout_bad)} :
     /\ stdout' = r.stdout
     /\ wcout_bad' = r.bad
     /\ records' = Append(records, text)
     /\ call' = [text |-> text, body |-> r.body, written |-> r.written,
                 reads |-> r.reads, matches |-> r.matches]

\* the lines a run may read next: any line of the converter's input set as the
\* first, and up to MaxRecords lines of SmallLines
LinesToRead ==
  IF nread = 0
  THEN SmallLines \cup (IF reverse_option THEN DecLines[converter] ELSE EncLines)
  ELSE IF \A k \in 1..Len(records) : records[k] \in SmallLines
       THEN SmallLines ELSE {}

\* lines 377-378: getline reads a line and processText handles it
ReadLine ==
  /\ pc = "process"
  /\ input_args = <<>>
  /\ nread < MaxRecords
  /\ \E line \in LinesToRead :
       /\ Process(line)
       /\ nread' = nread + 1
  /\ UNCHANGED <<charSigned, pc, conversion_type, reverse_option, input_args,
                 converters, available_types, converter, exit_code, arg_index>>

\* line 377 at the end of input, then line 387
StdinEnd ==
  /\ pc = "process"
  /\ input_args = <<>>
  /\ pc' = "exit"
  /\ exit_code' = 0
  /\ UNCHANGED <<charSigned, conversion_type, reverse_option, input_args, converters,
                 available_types, converter, stdout, wcout_bad, arg_index, records,
                 nread, call>>

\* lines 382-384
ProcessArg ==
  /\ pc = "process"
  /\ input_args # <<>>
  /\ arg_index < Len(input_args)
  /\ Process(input_args[arg_index + 1])
  /\ arg_index' = arg_index + 1
  /\ UNCHANGED <<charSigned, pc, conversion_type, reverse_option, input_args,
                 converters, available_types, converter, exit_code, nread>>

\* the loop of lines 382-384 ends, then line 387
ArgsEnd ==
  /\ pc = "process"
  /\ input_args # <<>>
  /\ arg_index = Len(input_args)
  /\ pc' = "exit"
  /\ exit_code' = 0
  /\ UNCHANGED <<charSigned, conversion_type, reverse_option, input_args, converters,
                 available_types, converter, stdout, wcout_bad, arg_index, records,
                 nread, call>>

Next ==
  \/ Construct
  \/ ParseAccept
  \/ ParseReject
  \/ Lookup
  \/ LocaleSetup
  \/ ReadLine
  \/ StdinEnd
  \/ ProcessArg
  \/ ArgsEnd

Spec == Init /\ [][Next]_vars

(***************************************************************************)
(* The byte patterns of each converter's reverse, as a table: the 3-byte   *)
(* sequences it tests for and the digit each stands for.  The reference    *)
(* decode loop scans left to right over this table.                        *)
(***************************************************************************)
Patterns(c) ==
  CASE c = "FullWidthConverter" -> {<<239, 188, b>> : b \in 144..153}
    [] c = "CircleConverter"    -> {<<226, 145, b>> : b \in 160..168} \cup {<<226, 146, 170>>}
    [] c = "RomanConverter"     -> {<<239, 188, 144>>, <<226, 133, 160>>}
    [] c = "ChineseConverter"   -> {<<227, 128, 135>>, <<228, 184, 128>>}
    [] c = "ThaiConverter"      -> {<<224, 185, b>> : b \in 144..153}

PatternDigit(c, p) ==
  CASE c = "FullWidthConverter" -> 48 + (p[3] - 144)
    [] c = "CircleConverter"    -> IF p[2] = 146 THEN 48 ELSE 49 + (p[3] - 160)
    [] c = "RomanConverter"     -> IF p[1] = 239 THEN 48 ELSE 49
    [] c = "ChineseConverter"   -> IF p[1] = 227 THEN 48 ELSE 49
    [] c = "ThaiConverter"      -> 48 + (p[3] - 144)

PatternAt(c, s, i) ==
  i + 3 <= Len(s) /\ <<s[i + 1], s[i + 2], s[i + 3]>> \in Patterns(c)

NoPattern(c, s) == \A i \in 0..(Len(s) - 1) : ~PatternAt(c, s, i)

RECURSIVE RefDecode(_, _, _)
RefDecode(c, s, i) ==
  IF i >= Len(s) THEN <<>>
  ELSE IF PatternAt(c, s, i)
       THEN <<PatternDigit(c, <<s[i + 1], s[i + 2], s[i + 3]>>)>> \o RefDecode(c, s, i + 3)
       ELSE <<s[i + 1]>> \o RefDecode(c, s, i + 1)

RECURSIVE RefMatches(_, _, _)
RefMatches(c, s, i) ==
  IF i >= Len(s) THEN 0
  ELSE IF PatternAt(c, s, i) THEN 1 + RefMatches(c, s, i + 3)
       ELSE RefMatches(c, s, i + 1)

LastBytes(s, k) == SubSeq(s, Len(s) - k + 1, Len(s))

\* t is the first 1 or 2 bytes of one of c's patterns
IsPatternPrefix(c, t) ==
  Len(t) \in {1, 2} /\ \E p \in Patterns(c) : SubSeq(p, 1, Len(t)) = t

AllAscii(s) == \A k \in 1..Len(s) : s[k] < 128
NoDigits(s) == \A k \in 1..Len(s) : ~(s[k] >= 48 /\ s[k] <= 57)

\* processText has handled a record, in decode or in encode mode
Decoded == records # <<>> /\ reverse_option
Encoded == records # <<>> /\ ~reverse_option

\* what processText writes for text when it is the first record of a run
WrittenAlone(text) == processText(converter, reverse_option, text, <<>>, FALSE).written

RECURSIVE ExpectedOutput(_)
ExpectedOutput(recs) ==
  IF recs = <<>> THEN <<>> ELSE WrittenAlone(Head(recs)) \o ExpectedOutput(Tail(recs))

(***************************************************************************)
(* The claims.                                                             *)
(***************************************************************************)

\* C1: round trip. For every variant and every ASCII-only record, reverse of
\* the bytes convert wrote to standard output is the record itself.
RoundTrip ==
  (Encoded /\ Len(records) = 1 /\ AllAscii(call.text))
    => reverse(converter, call.body).out = call.text

\* C2: encode is the identity on non-digits. For every variant and every
\* record without a byte in '0'..'9', bytes >= 0x80 included, the bytes convert
\* wrote to standard output are the record's bytes.
EncodeIdentityOnNonDigits ==
  (Encoded /\ Len(records) = 1 /\ NoDigits(call.text)) => call.body = call.text

\* C3: decode is the identity on unrelated input. For every variant and every
\* record in which no offset starts one of the variant's 3-byte patterns,
\* reverse writes the record byte for byte.
DecodeIdentityOnUnrelated ==
  (Decoded /\ NoPattern(converter, call.text)) => call.body = call.text

DecodeIdentityOnUnrelated_witness ==
  /\ Decoded
  /\ NoPattern(converter, call.text)
  /\ Len(call.text) = MaxDecLen
  /\ IsPatternPrefix(converter, SubSeq(call.text, 1, 2))
  /\ call.body = call.text

\* C4: decode never reads past the end of its input. Every index reverse reads
\* is below the record's length, and a record that ends in the first 1 or 2
\* bytes of a pattern has those bytes copied to the output unchanged.
DecodeReadsInBounds ==
  Decoded =>
    /\ \A i \in call.reads : i >= 0 /\ i < Len(call.text)
    /\ \A k \in {1, 2} :
         (k <= Len(call.text) /\ IsPatternPrefix(converter, LastBytes(call.text, k)))
           => (k <= Len(call.body) /\ LastBytes(call.body, k) = LastBytes(call.text, k))

DecodeReadsInBounds_witness ==
  /\ Decoded
  /\ Len(call.text) >= 3
  /\ IsPatternPrefix(converter, LastBytes(call.text, 2))
  /\ LastBytes(call.body, 2) = LastBytes(call.text, 2)
  /\ call.reads = 0..(Len(call.text) - 1)

\* C5: decode never lengthens its input. The output's length is the record's
\* length minus twice the number of patterns matched; it is at most the
\* record's length, and equal to it exactly when nothing matched.
DecodeLength ==
  Decoded =>
    /\ Len(call.body) = Len(call.text) - 2 * call.matches
    /\ call.matches = RefMatches(converter, call.text, 0)
    /\ Len(call.body) <= Len(call.text)
    /\ (Len(call.body) = Len(call.text)) <=> (call.matches = 0)

DecodeLength_witness ==
  /\ Decoded
  /\ call.matches = 2
  /\ Len(call.text) = 6
  /\ Len(call.body) = 2

\* C6: registry lookup is exact and case-sensitive. On the constructed
\* registry getConverter finds a converter exactly for the five registered
\* names, the converter found has that name, every other name yields nullptr,
\* and after main's lookup the registry is what the constructor built.
RegistryLookupExact ==
  (pc # "start") =>
    /\ \A name \in TypeInputs :
         /\ (getConverter(converters, name) # "nullptr") <=> (name \in RegisteredNames)
         /\ (getConverter(converters, name) # "nullptr")
              => getName(getConverter(converters, name)) = name
    /\ (pc \in {"locale", "process"})
         => (converter # "nullptr" /\ getName(converter) = conversion_type)
    /\ DOMAIN converters = RegisteredNames
    /\ \A k \in 1..5 : converters[getName(Converters[k])] = Converters[k]

RegistryLookupExact_witness ==
  /\ pc = "locale"
  /\ conversion_type = "roman"
  /\ converter = "RomanConverter"
  /\ getConverter(converters, "Roman") = "nullptr"
  /\ getConverter(converters, "not-a-real-type") = "nullptr"

\* C7: an unknown --type value is rejected before any processing. In a run
\* whose type is no registered name no record is read, no convert or reverse
\* call is made, nothing is written to standard output, main never gets past
\* the parse, and the exit status is not zero.
UnknownTypeRejected ==
  (conversion_type \notin RegisteredNames) =>
    /\ nread = 0
    /\ records = <<>>
    /\ stdout = <<>>
    /\ pc \in {"start", "parse", "exit"}
    /\ (pc = "parse") => ENABLED ParseReject
    /\ (pc = "exit") => exit_code # 0

UnknownTypeRejected_witness ==
  /\ conversion_type = "not-a-real-type"
  /\ pc = "exit"
  /\ exit_code = 105
  /\ stdout = <<>>

\* C8: records are processed independently. Standard output is, record by
\* record and in input order, what processText writes for that record alone
\* (its transformation and a newline), whatever the earlier records were.
RecordsIndependent ==
  (records # <<>>) =>
    /\ stdout = ExpectedOutput(records)
    /\ call.written = WrittenAlone(call.text)

DecodeIdempotent ==
  Decoded => reverse(converter, call.body).out = call.body

DecodeIdempotent_witness ==
  /\ Decoded
  /\ call.matches = 1
  /\ Len(call.text) = 6
  /\ IsPatternPrefix(converter, <<call.body[1]>>)
  /\ call.body[2] >= 48 /\ call.body[2] <= 57
  /\ call.body[3] >= 128

====
